---- MODULE Spec2Model ----
(***************************************************************************)
(* simpledb: the slotted page of include/page.hpp and the cache of lru.hpp. *)
(*                                                                         *)
(* A page<PageSize> object is a header of two intra_offset_t fields        *)
(* followed by std::array<uint8_t, data_size> m_data.  The model keeps the *)
(* header fields as integers, m_data as the sequence of its bytes (data    *)
(* index a is m_data[a + 1]) and, because clear() and insert() can store   *)
(* past the end of the array, the sizeof(header) bytes of memory that      *)
(* follow the array (past_end).  Integers are stored the way the tests'    *)
(* targets store them: little-endian, at any alignment.                    *)
(*                                                                         *)
(* A uint32_t header field or table entry is held as the integer that has  *)
(* the same 32 bits in two's complement: a negative number stands for a    *)
(* value of 2^31 or more, which lies outside every buffer of the model.    *)
(***************************************************************************)
EXTENDS Integers, Sequences, FiniteSets, TLC

VARIABLES
    page_size,  \* the template parameter PageSize of the page under test
    m_header,   \* page::m_header: [free_region_start, free_region_end]
    m_data,     \* page::m_data, the bytes of the array
    past_end,   \* the sizeof(header) bytes of memory that follow m_data
    alive,      \* FALSE once an out-of-bounds access has stopped the process
    live,       \* successful inserts since construction or the last clear
    inserts,    \* successful inserts since construction
    clears,     \* clear() calls made so far
    ss,         \* the std::stringstream of the round trip (bytes written, unread)
    p2,         \* the page read back from ss, or NoPage
    m_size,     \* lru::m_size
    m_list,     \* lru::m_list: the nodes [node, ptr], front first
    m_map,      \* lru::m_map: key -> the value its weak_ptr refers to
    m_iter_map, \* lru::m_iter_map: key -> the node its iterator refers to
    held,       \* the values callers of the cache hold a shared_ptr to
    made,       \* insert calls made on the cache so far
    intact,     \* FALSE once undefined behaviour has stopped the cache's process
    used,       \* history: the keys, the most recently inserted or resolved first
    latest,     \* history: key -> the value of the last insert under it
    plain       \* history: only inserts of distinct keys have been made so far

pvars == <<page_size, m_header, m_data, past_end, alive, live, inserts, clears, ss, p2>>
cvars == <<m_size, m_list, m_map, m_iter_map, held, made, intact, used, latest, plain>>
vars == <<pvars, cvars>>

-----------------------------------------------------------------------------
(* Bounds of the model. *)

SmallPage == 20
WidePage == 16388
MaxLen == 1
MaxInserts == 3
MaxClears == 1
MaxKey == 3
MaxCapacity == 2
MaxCacheInserts == 3

(* page.hpp:30: page_size <= 16384 selects uint16_t, anything above uint32_t. *)
OffsetLimit == 16384

PageSizes == {SmallPage, WidePage}
Alphabet == {1, 2}
Garbage == {0, 255}

(* Stands for a size_t value of 2^30 or more: no index or length of the     *)
(* model reaches it.                                                        *)
FarOut == 2 ^ 30

Max(a, b) == IF a >= b THEN a ELSE b
Min(a, b) == IF a <= b THEN a ELSE b

(* Constant runs of one byte, long enough for any buffer of the model. *)
RunCap == WidePage + 16
RunOf == [b \in Alphabet \cup Garbage |-> [i \in 1..RunCap |-> b]]
Run(b, n) == SubSeq(RunOf[b], 1, n)

-----------------------------------------------------------------------------
(* Layout: intra_offset_t, header, data_size. *)

sizeof_intra_offset_t(PageSize) == IF PageSize <= OffsetLimit THEN 2 ELSE 4
sizeof_header(PageSize) == 2 * sizeof_intra_offset_t(PageSize)
data_size(PageSize) == PageSize - sizeof_header(PageSize)

(* The object representation of an intra_offset_t: w little-endian bytes. *)
Enc(v, w) == [k \in 1..w |-> (v \div (256 ^ (k - 1))) % 256]

(* The intra_offset_t whose object representation is the w bytes b. *)
Dec(b, w) ==
    IF w = 2 THEN b[1] + 256 * b[2]
    ELSE b[1] + 256 * b[2] + 65536 * b[3]
         + 16777216 * (IF b[4] >= 128 THEN b[4] - 256 ELSE b[4])

(* static_cast<intra_offset_t>(v) *)
Narrow(v, w) == IF w = 2 THEN v % 65536 ELSE v

-----------------------------------------------------------------------------
(* The memory an access through &m_data[a] can reach.  A page value is     *)
(* [page_size, header, data, past]; its bytes at data indices              *)
(* -sizeof(header) .. -1 are the header (the member declared just before   *)
(* m_data), 0 .. data_size - 1 the array, data_size .. page_size - 1 the   *)
(* memory after the array.  Anything else is memory the model does not     *)
(* hold: a store there is lost, a load from there yields garbage.          *)

W(P) == sizeof_intra_offset_t(P.page_size)
H(P) == sizeof_header(P.page_size)
D(P) == data_size(P.page_size)

HeaderBytes(P) ==
    Enc(P.header.free_region_start, W(P)) \o Enc(P.header.free_region_end, W(P))

(* The bytes of region (data indices base ..) after bytes are stored at a. *)
Splice(region, base, a, bytes) ==
    LET lo == Max(a, base)
        hi == Min(a + Len(bytes), base + Len(region))
    IN  IF lo >= hi THEN region
        ELSE SubSeq(region, 1, lo - base)
             \o SubSeq(bytes, lo - a + 1, hi - a)
             \o SubSeq(region, hi - base + 1, Len(region))

(* Memory as [hdr, data, past, oob]: oob records that some access left the *)
(* array, which is undefined behaviour.                                    *)
Mem(P) == [hdr |-> HeaderBytes(P), data |-> P.data, past |-> P.past, oob |-> FALSE]

Store(M, a, bytes) ==
    IF bytes = <<>> THEN M
    ELSE [hdr  |-> Splice(M.hdr, -Len(M.hdr), a, bytes),
          data |-> Splice(M.data, 0, a, bytes),
          past |-> Splice(M.past, Len(M.data), a, bytes),
          oob  |-> M.oob \/ a < 0 \/ a + Len(bytes) > Len(M.data)]

(* A load that leaves the array. *)
LoadOutside(M, a, n) == n > 0 /\ (a < 0 \/ a + n > Len(M.data))

(* The n bytes at data index a; bytes of memory the model does not hold    *)
(* read as g.  A length no buffer of the model has yields <<-1>>.          *)
Load(M, a, n, g) ==
    IF n = 0 THEN <<>>
    ELSE IF n < 0 \/ n > RunCap THEN <<-1>>
    ELSE IF a >= 0 /\ a + n <= Len(M.data) THEN SubSeq(M.data, a + 1, a + n)
    ELSE LET h  == Len(M.hdr)
             lo == Max(a, -h)
             hi == Min(a + n, Len(M.data) + Len(M.past))
         IN  IF lo >= hi THEN Run(g, n)
             ELSE Run(g, lo - a)
                  \o SubSeq(M.hdr \o M.data \o M.past, lo + h + 1, hi + h)
                  \o Run(g, a + n - hi)

(* An intra_offset_t used as a size_t index: a uint32_t of 2^31 or more is *)
(* far outside the model.                                                  *)
Index(v) == IF v < 0 THEN FarOut ELSE v

-----------------------------------------------------------------------------
(* page.hpp, the const members. *)

(* page() *)
page(PageSize, g) ==
    [page_size |-> PageSize,
     header    |-> [free_region_start |-> sizeof_header(PageSize),
                    free_region_end   |-> data_size(PageSize)],
     data      |-> Run(g, data_size(PageSize)),
     past      |-> Run(g, sizeof_header(PageSize))]

(* size(): (free_region_start - sizeof(header)) / sizeof(intra_offset_t),  *)
(* computed in size_t, where a start below sizeof(header) wraps around.    *)
size(P) ==
    LET frs == P.header.free_region_start
    IN  IF frs < H(P) THEN FarOut ELSE (frs - H(P)) \div W(P)

(* free_space(): free_region_end - free_region_start converted to size_t:  *)
(* a negative difference becomes a huge value.                             *)
free_space(P) ==
    LET d == P.header.free_region_end - P.header.free_region_start
    IN  IF d < 0 THEN FarOut ELSE d

fits(P, n) == free_space(P) >= n

empty(P) == size(P) = 0

(* A contains that also admits index = size(): the off-by-one C7 excludes. *)
contains_inclusive(P, index) == index <= size(P)

contains(P, index) == index < size(P)

(* size_and_offset_of(index): {*data_ptr, data_ptr + 1} as [len, off]; oob *)
(* tells that a load left the array.                                       *)
size_and_offset_of(P, index, g) ==
    LET M           == Mem(P)
        data_offset == Index(Dec(Load(M, W(P) * index, W(P), g), W(P)))
        len         == Index(Dec(Load(M, data_offset, W(P), g), W(P)))
    IN  [len |-> len,
         off |-> IF data_offset >= FarOut THEN FarOut ELSE data_offset + W(P),
         oob |-> LoadOutside(M, W(P) * index, W(P))
                 \/ LoadOutside(M, data_offset, W(P))]

(* The bytes a caller reads through the view at(index) returns. *)
at(P, index, g) ==
    LET v == size_and_offset_of(P, index, g)
    IN  Load(Mem(P), v.off, v.len, g)

(* at(index)[k]: the byte a caller reads at position k of the view. *)
view_byte(P, index, k, g) ==
    LET v == size_and_offset_of(P, index, g)
    IN  Load(Mem(P), IF v.off >= FarOut THEN FarOut ELSE v.off + k, 1, g)[1]

-----------------------------------------------------------------------------
(* page.hpp, the members that write. *)

(* The header the bytes M.hdr hold. *)
HeaderOf(M, w) ==
    [free_region_start |-> Dec(SubSeq(M.hdr, 1, w), w),
     free_region_end   |-> Dec(SubSeq(M.hdr, w + 1, 2 * w), w)]

(* The size check of insert(std::string_view): fits(size + sizeof(offset) + 2) *)
insert_fits(P, data) == fits(P, Len(data) + W(P) + 2)

(* insert(std::string_view) past its size check: the stores in the order   *)
(* of the source.  [page, index, oob]: the page afterwards, the index      *)
(* returned, and whether a store left the array.                           *)
insert(P, data) ==
    LET w     == W(P)
        fre   == P.header.free_region_end
        \* auto start = free_region_end - data.size() - sizeof(intra_offset_t)
        start == IF fre < 0 THEN FarOut ELSE fre - Len(data) - w
        \* what static_cast<intra_offset_t>(start) keeps
        short == Narrow(fre - Len(data) - w, w)
        \* *offset = static_cast<intra_offset_t>(data.size())
        M1    == Store(Mem(P), start, Enc(Narrow(Len(data), w), w))
        \* std::copy(data.begin(), data.end(), m_data.begin() + start + sizeof)
        M2    == Store(M1, start + w, data)
        \* auto current_entry = size()
        current_entry == size([P EXCEPT !.header = HeaderOf(M2, w)])
        \* offsets[current_entry] = start
        M3    == Store(M2, IF current_entry >= FarOut THEN FarOut
                           ELSE w * current_entry, Enc(short, w))
        h3    == HeaderOf(M3, w)
    IN  [page  |-> [page_size |-> P.page_size,
                    \* free_region_start += sizeof; free_region_end = start
                    header    |-> [free_region_start |->
                                       Narrow(h3.free_region_start + w, w),
                                   free_region_end |-> short],
                    data      |-> M3.data,
                    past      |-> M3.past],
         index |-> current_entry,
         oob   |-> M3.oob]

(* A clear that resets free_region_end only: the slots would survive. *)
clear_end_only(P) ==
    [P EXCEPT !.header.free_region_end = Narrow(P.page_size, W(P))]

(* clear() *)
clear(P) ==
    [P EXCEPT !.header = [free_region_start |-> H(P),
                          free_region_end   |-> Narrow(P.page_size, W(P))]]

(* view[k] = b through the view the non-const at(index) returns *)
view_store(P, index, k, b, g) ==
    LET v == size_and_offset_of(P, index, g)
        M == Store(Mem(P), IF v.off >= FarOut THEN FarOut ELSE v.off + k, <<b>>)
    IN  [page |-> [page_size |-> P.page_size,
                   header    |-> HeaderOf(M, W(P)),
                   data      |-> M.data,
                   past      |-> M.past],
         oob  |-> v.oob \/ M.oob]

(* operator<<: the header's bytes, then the whole array *)
stream_out(P) == HeaderBytes(P) \o P.data

(* operator>> into P from a stream that holds at least page_size bytes *)
stream_in(P, bytes) ==
    [P EXCEPT !.header = HeaderOf([hdr |-> SubSeq(bytes, 1, H(P))], W(P)),
              !.data   = SubSeq(bytes, H(P) + 1, H(P) + D(P))]

-----------------------------------------------------------------------------
(* The whole calls, as a caller sees them. *)

(* An insert that makes its stores before it looks at the space left: the  *)
(* partial write C4 excludes.                                              *)
insert_call_partial(P, data) ==
    LET r == insert(P, data)
    IN  [page   |-> r.page,
         result |-> IF insert_fits(P, data) THEN "index" ELSE "bad_alloc",
         index  |-> r.index,
         oob    |-> r.oob]

(* insert(std::string_view): [page, result, index, oob] *)
insert_call(P, data) ==
    IF ~insert_fits(P, data)
    THEN [page |-> P, result |-> "bad_alloc", index |-> 0, oob |-> FALSE]
    ELSE LET r == insert(P, data)
         IN  [page |-> r.page, result |-> "index", index |-> r.index, oob |-> r.oob]

(* at(index): [result, off, len, oob] *)
at_call(P, index, g) ==
    IF ~contains(P, index)
    THEN [result |-> "out_of_range", off |-> 0, len |-> 0, oob |-> FALSE]
    ELSE LET v == size_and_offset_of(P, index, g)
         IN  [result |-> "view", off |-> v.off, len |-> v.len, oob |-> v.oob]

-----------------------------------------------------------------------------
(* The state machine: one page object and the calls a caller makes on it.  *)
(* A call that returns a value and leaves the object alone (contains, at,  *)
(* an insert that throws) is a step that changes nothing: what it returns  *)
(* is insert_call, at_call and contains of the state it is made in.        *)

This == [page_size |-> page_size, header |-> m_header, data |-> m_data, past |-> past_end]

Become(P) == m_header' = P.header /\ m_data' = P.data /\ past_end' = P.past

NoPage == [set |-> FALSE]

(* No round trip is under way: the stream and the second page are locals   *)
(* of the round trip, and the page is left alone while they exist.         *)
Idle == alive /\ ss = <<>> /\ ~p2.set

Seqs(n) == UNION {[1..k -> Alphabet] : k \in 0..n}

(* Lengths around the point where a record stops fitting. *)
NearFull(P) ==
    IF free_space(P) >= FarOut THEN {}
    ELSE {n \in (free_space(P) - 2 * W(P))..(free_space(P) - W(P) - 1) : n > MaxLen}

FillByte == CHOOSE b \in Alphabet : \A c \in Alphabet : b <= c

Payloads(P) == Seqs(MaxLen) \cup {Run(FillByte, n) : n \in NearFull(P)}

Indices == 0..MaxInserts

(* The cache of the page's runs: none of its members is called. *)
NoCache ==
    /\ m_size = 1
    /\ m_list = <<>>
    /\ m_map = <<>>
    /\ m_iter_map = <<>>
    /\ held = {}
    /\ made = 0
    /\ intact = TRUE
    /\ used = <<>>
    /\ latest = <<>>
    /\ plain = TRUE

Init ==
    /\ page_size \in PageSizes
    /\ \E g \in Garbage :
         /\ m_header = page(page_size, g).header
         /\ m_data = page(page_size, g).data
         /\ past_end = page(page_size, g).past
    /\ alive = TRUE
    /\ live = 0
    /\ inserts = 0
    /\ clears = 0
    /\ ss = <<>>
    /\ p2 = NoPage
    /\ NoCache

(* An access outside the array may stop the process: its objects are gone. *)
Fault ==
    /\ alive' = FALSE
    /\ m_header' = [free_region_start |-> 0, free_region_end |-> 0]
    /\ m_data' = <<>>
    /\ past_end' = <<>>
    /\ live' = 0
    /\ inserts' = 0
    /\ clears' = 0
    /\ ss' = <<>>
    /\ p2' = NoPage
    /\ UNCHANGED <<page_size, cvars>>

(* insert(data) returns an index. *)
Insert(data) ==
    /\ Idle
    /\ inserts < MaxInserts
    /\ LET r == insert_call(This, data)
       IN  /\ r.result = "index"
           /\ \/ /\ Become(r.page)
                 /\ live' = live + 1
                 /\ inserts' = inserts + 1
                 /\ UNCHANGED <<page_size, alive, clears, ss, p2, cvars>>
              \/ r.oob /\ Fault

(* insert(data) throws std::bad_alloc for some data. *)
InsertThrows ==
    /\ Idle
    /\ (\E data \in Payloads(This) : insert_call(This, data).result = "bad_alloc") = TRUE
    /\ UNCHANGED vars

(* at(index) for some index: it returns a view or throws, or a load of     *)
(* size_and_offset_of leaves the array.                                    *)
At ==
    /\ Idle
    /\ \/ UNCHANGED vars
       \/ /\ (\E index \in Indices, g \in Garbage : at_call(This, index, g).oob) = TRUE
          /\ Fault

(* contains(index) for some index. *)
Contains ==
    /\ Idle
    /\ (\A index \in Indices : contains(This, index) \in BOOLEAN) = TRUE
    /\ UNCHANGED vars

Clear ==
    /\ Idle
    /\ clears < MaxClears
    /\ Become(clear(This))
    /\ live' = 0
    /\ clears' = clears + 1
    /\ UNCHANGED <<page_size, alive, inserts, ss, p2, cvars>>

(* auto entry = p.at(index); entry[k] = b; *)
WriteView(index, k, b) ==
    /\ Idle
    /\ contains(This, index)
    /\ \E r \in {[len |-> size_and_offset_of(This, index, g).len,
                  to  |-> view_store(This, index, k, b, g)] : g \in Garbage} :
         /\ k < r.len
         /\ \/ /\ Become(r.to.page)
               /\ UNCHANGED <<page_size, alive, live, inserts, clears, ss, p2, cvars>>
            \/ r.to.oob /\ Fault

(* The owner of the memory that follows the page object stores into it,    *)
(* over what the page stored there.                                        *)
Reclaim ==
    /\ Idle
    /\ past_end \notin {Run(g, Len(past_end)) : g \in Garbage}
    /\ \E g \in Garbage : past_end' = Run(g, Len(past_end))
    /\ UNCHANGED <<page_size, m_header, m_data, alive, live, inserts, clears, ss, p2, cvars>>

(* ss << p *)
Serialize ==
    /\ Idle
    /\ ss' = ss \o stream_out(This)
    /\ UNCHANGED <<page_size, m_header, m_data, past_end, alive, live, inserts, clears, p2, cvars>>

(* page_t p2; ss >> p2; *)
Deserialize ==
    /\ alive
    /\ ~p2.set
    /\ Len(ss) >= page_size
    /\ \E g \in Garbage :
         p2' = [set |-> TRUE,
                page |-> stream_in(page(page_size, g), SubSeq(ss, 1, page_size))]
    /\ ss' = SubSeq(ss, page_size + 1, Len(ss))
    /\ UNCHANGED <<page_size, m_header, m_data, past_end, alive, live, inserts, clears, cvars>>

(* The round trip's locals go out of scope. *)
Drop ==
    /\ alive
    /\ p2.set
    /\ p2' = NoPage
    /\ UNCHANGED <<page_size, m_header, m_data, past_end, alive, live, inserts, clears, ss, cvars>>

(* The calls on the page. *)
Next ==
    \/ \E data \in Payloads(This) : Insert(data)
    \/ InsertThrows
    \/ At
    \/ Contains
    \/ Clear
    \/ \E index \in Indices, k \in 0..(MaxLen - 1), b \in Alphabet : WriteView(index, k, b)
    \/ Reclaim

Spec == Init /\ [][Next]_vars

(* The calls on the page, and round trips through a stream. *)
NextStream ==
    \/ Next
    \/ Serialize
    \/ Deserialize
    \/ Drop

SpecStream == Init /\ [][NextStream]_vars

-----------------------------------------------------------------------------
(* lru.hpp.  A value is named by the number of the insert call that made   *)
(* it, a node of m_list by the number of the insert call that pushed it;   *)
(* nullptr is 0.  A weak_ptr of m_map resolves while some shared_ptr       *)
(* refers to its value: one in a node of m_list, or one a caller holds.    *)

Keys == 1..MaxKey
Capacities == 0..MaxCapacity
nullptr == 0

EmptyMap == [k \in {} |-> 0]

(* m[k] = v *)
Put(m, k, v) == [x \in DOMAIN m \cup {k} |-> IF x = k THEN v ELSE m[x]]

(* m.erase(k) *)
Erase(m, k) == [x \in DOMAIN m \ {k} |-> m[x]]

(* lru(size) *)
lru(capacity) ==
    [m_size |-> capacity, m_list |-> <<>>, m_map |-> EmptyMap, m_iter_map |-> EmptyMap]

(* The values the nodes of a list hold a shared_ptr to. *)
ListValues(list) == {list[i].ptr : i \in 1..Len(list)}

(* A lock that only the callers' handles satisfy: a list of weak_ptr. *)
lock_callers_only(L, holders, v) == v \in holders

(* weak_ptr::lock() on a weak_ptr to v gives a pointer: v has an owner. *)
lock(L, holders, v) == v \in ListValues(L.m_list) \/ v \in holders

(* An insert that leaves the m_map entry of a key that has one: the first  *)
(* value would win.                                                        *)
lru_insert_first_wins(L, key, ptr, node) ==
    LET full == Len(L.m_list) >= L.m_size
        kept == IF full /\ L.m_list # <<>>
                THEN SubSeq(L.m_list, 1, Len(L.m_list) - 1)
                ELSE L.m_list
    IN  [cache |-> [m_size     |-> L.m_size,
                    m_list     |-> <<[node |-> node, ptr |-> ptr]>> \o kept,
                    m_map      |-> IF key \in DOMAIN L.m_map THEN L.m_map
                                   ELSE Put(L.m_map, key, ptr),
                    m_iter_map |-> Put(L.m_iter_map, key, node)],
         ub    |-> full /\ L.m_list = <<>>]

(* insert(key, ptr), the new node being node.  ub: pop_back() was called   *)
(* on an empty list (m_size = 0); cache is then what is left when that     *)
(* call removes nothing.                                                   *)
lru_insert(L, key, ptr, node) ==
    LET full == Len(L.m_list) >= L.m_size
        kept == IF full /\ L.m_list # <<>>
                THEN SubSeq(L.m_list, 1, Len(L.m_list) - 1)
                ELSE L.m_list
    IN  [cache |-> [m_size     |-> L.m_size,
                    m_list     |-> <<[node |-> node, ptr |-> ptr]>> \o kept,
                    m_map      |-> Put(L.m_map, key, ptr),
                    m_iter_map |-> Put(L.m_iter_map, key, node)],
         ub    |-> full /\ L.m_list = <<>>]

(* The position in list of the node an iterator refers to, 0 if that node  *)
(* is no longer in the list.                                               *)
PositionOf(list, node) ==
    IF \E i \in 1..Len(list) : list[i].node = node
    THEN CHOOSE i \in 1..Len(list) : list[i].node = node
    ELSE 0

(* m_list.splice(m_list.begin(), m_list, list_iter) for a node of the list *)
splice(list, i) ==
    <<list[i]>> \o SubSeq(list, 1, i - 1) \o SubSeq(list, i + 1, Len(list))

(* A get that leaves the node where it is: without the promotion of C11. *)
lru_get_without_splice(L, key, holders) ==
    IF key \notin DOMAIN L.m_map
    THEN [cache |-> L, result |-> nullptr, ub |-> FALSE]
    ELSE IF ~lock(L, holders, L.m_map[key])
    THEN [cache  |-> [L EXCEPT !.m_map = Erase(L.m_map, key),
                               !.m_iter_map = Erase(L.m_iter_map, key)],
          result |-> nullptr,
          ub     |-> FALSE]
    ELSE [cache |-> L, result |-> L.m_map[key], ub |-> FALSE]

(* A get that erases a dead key from m_map only. *)
lru_get_keeps_iterator(L, key, holders) ==
    IF key \notin DOMAIN L.m_map
    THEN [cache |-> L, result |-> nullptr, ub |-> FALSE]
    ELSE IF ~lock(L, holders, L.m_map[key])
    THEN [cache  |-> [L EXCEPT !.m_map = Erase(L.m_map, key)],
          result |-> nullptr,
          ub     |-> FALSE]
    ELSE LET i == IF key \in DOMAIN L.m_iter_map
                  THEN PositionOf(L.m_list, L.m_iter_map[key])
                  ELSE 0
         IN  IF i = 0
             THEN [cache |-> L, result |-> L.m_map[key], ub |-> TRUE]
             ELSE [cache  |-> [L EXCEPT !.m_list = splice(L.m_list, i)],
                   result |-> L.m_map[key],
                   ub     |-> FALSE]

(* get(key) while the callers hold the values holders: [cache, result, ub]. *)
(* ub: splice was given an iterator to a node that has been erased; cache  *)
(* is then what is left when that call changes nothing.                    *)
lru_get(L, key, holders) ==
    IF key \notin DOMAIN L.m_map
    THEN [cache |-> L, result |-> nullptr, ub |-> FALSE]
    ELSE IF ~lock(L, holders, L.m_map[key])
    THEN [cache  |-> [L EXCEPT !.m_map = Erase(L.m_map, key),
                               !.m_iter_map = Erase(L.m_iter_map, key)],
          result |-> nullptr,
          ub     |-> FALSE]
    ELSE LET i == IF key \in DOMAIN L.m_iter_map
                  THEN PositionOf(L.m_list, L.m_iter_map[key])
                  ELSE 0
         IN  IF i = 0
             THEN [cache |-> L, result |-> L.m_map[key], ub |-> TRUE]
             ELSE [cache  |-> [L EXCEPT !.m_list = splice(L.m_list, i)],
                   result |-> L.m_map[key],
                   ub     |-> FALSE]

-----------------------------------------------------------------------------
(* The state machine of the cache: one lru object, the callers' handles.   *)

Lru == [m_size |-> m_size, m_list |-> m_list, m_map |-> m_map, m_iter_map |-> m_iter_map]

BecomeLru(L) ==
    /\ m_list' = L.m_list
    /\ m_map' = L.m_map
    /\ m_iter_map' = L.m_iter_map
    /\ UNCHANGED m_size

(* key moved to the front of the history of uses *)
Touch(key) == <<key>> \o SelectSeq(used, LAMBDA k : k # key)

(* The page of the cache's runs: none of its members is called. *)
PageUnused ==
    /\ page_size = SmallPage
    /\ m_header = page(SmallPage, 0).header
    /\ m_data = page(SmallPage, 0).data
    /\ past_end = page(SmallPage, 0).past
    /\ alive = TRUE
    /\ live = 0
    /\ inserts = 0
    /\ clears = 0
    /\ ss = <<>>
    /\ p2 = NoPage

InitCache ==
    /\ PageUnused
    /\ m_size \in Capacities
    /\ m_list = lru(m_size).m_list
    /\ m_map = lru(m_size).m_map
    /\ m_iter_map = lru(m_size).m_iter_map
    /\ held = {}
    /\ made = 0
    /\ intact = TRUE
    /\ used = <<>>
    /\ latest = EmptyMap
    /\ plain = TRUE

(* Undefined behaviour may stop the process: its objects are gone. *)
CacheFault ==
    /\ intact' = FALSE
    /\ m_list' = <<>>
    /\ m_map' = EmptyMap
    /\ m_iter_map' = EmptyMap
    /\ held' = {}
    /\ made' = 0
    /\ used' = <<>>
    /\ latest' = EmptyMap
    /\ plain' = FALSE
    /\ UNCHANGED <<m_size, pvars>>

(* cache.insert(key, ptr), ptr a shared_ptr to value v; keep: the caller   *)
(* holds a shared_ptr to v after the call.                                 *)
InsertPtr(key, v, keep) ==
    /\ intact
    /\ made < MaxCacheInserts
    /\ LET r == lru_insert(Lru, key, v, made + 1)
       IN  \/ /\ BecomeLru(r.cache)
              /\ held' = IF keep THEN held \cup {v} ELSE held \ {v}
              /\ made' = made + 1
              /\ used' = Touch(key)
              /\ latest' = Put(latest, key, v)
              /\ plain' = (plain /\ key \notin DOMAIN latest)
              /\ UNCHANGED <<intact, pvars>>
           \/ r.ub /\ CacheFault

(* cache.insert(key, value): the value is moved into a new shared_ptr that *)
(* only the cache's list keeps.                                            *)
InsertValue(key) == InsertPtr(key, made + 1, FALSE)

(* auto p = std::make_shared<value_type>(...); cache.insert(key, p); *)
InsertOwned(key) == InsertPtr(key, made + 1, TRUE)

(* cache.insert(key, p) for a shared_ptr p the caller holds already *)
InsertHeld(key, v) == v \in held /\ InsertPtr(key, v, TRUE)

(* cache.get(key); keep: the caller keeps the shared_ptr it returns. *)
Get(key, keep) ==
    /\ intact
    /\ LET r == lru_get(Lru, key, held)
       IN  \/ /\ BecomeLru(r.cache)
              /\ held' = IF keep /\ r.result # nullptr
                         THEN held \cup {r.result} ELSE held
              /\ used' = IF r.result # nullptr THEN Touch(key) ELSE used
              /\ plain' = FALSE
              /\ UNCHANGED <<made, intact, latest, pvars>>
           \/ r.ub /\ CacheFault

(* A caller lets go of its last shared_ptr to v. *)
Release(v) ==
    /\ intact
    /\ v \in held
    /\ held' = held \ {v}
    /\ UNCHANGED <<m_size, m_list, m_map, m_iter_map, made, intact, used, latest, plain, pvars>>

Values == 1..MaxCacheInserts

NextCache ==
    \/ \E key \in Keys : InsertValue(key)
    \/ \E key \in Keys : InsertOwned(key)
    \/ \E key \in Keys, v \in Values : InsertHeld(key, v)
    \/ \E key \in Keys, keep \in BOOLEAN : Get(key, keep)
    \/ \E v \in Values : Release(v)

SpecCache == InitCache /\ [][NextCache]_vars

(* Callers that insert by value and keep no shared_ptr that get returns. *)
NextByValue ==
    \/ \E key \in Keys : InsertValue(key)
    \/ \E key \in Keys : Get(key, FALSE)

SpecByValue == InitCache /\ [][NextByValue]_vars

(* The keys get resolves while the callers hold the values holders. *)
Resident(L, holders) ==
    {k \in DOMAIN L.m_map : lru_get(L, k, holders).result # nullptr}

(* insert is about to pop the node the iterator of key k refers to. *)
Dropped(L, k) ==
    /\ L.m_list # <<>>
    /\ Len(L.m_list) >= L.m_size
    /\ k \in DOMAIN L.m_iter_map
    /\ L.m_iter_map[k] = L.m_list[Len(L.m_list)].node

(* Of the keys ks, the one whose last insert or resolving get is oldest. *)
LeastRecent(ks) ==
    LET last == CHOOSE i \in 1..Len(used) :
                    /\ used[i] \in ks
                    /\ \A j \in (i + 1)..Len(used) : used[j] \notin ks
    IN  used[last]

-----------------------------------------------------------------------------
(* The claims. *)

(* C1: while no clear() has been called, the k-th insert that succeeds     *)
(* returns index k-1, at(k-1) then views exactly the bytes inserted, and   *)
(* what at(j) views for every earlier index j is the same as before.       *)
C1_InsertReturnsNextIndexAndKeepsRecords ==
    [][\A data \in Payloads(This) :
          (Insert(data) /\ alive' /\ clears = 0) =>
              /\ insert_call(This, data).index = inserts
              /\ \A g \in Garbage :
                    /\ at_call(This', inserts, g).result = "view"
                    /\ at_call(This', inserts, g).len = Len(data)
                    /\ at(This', inserts, g) = data
                    /\ \A j \in 0..(inserts - 1) :
                          /\ at_call(This', j, g).len = at_call(This, j, g).len
                          /\ at(This', j, g) = at(This, j, g)]_vars

(* C2: the header always satisfies                                         *)
(* 0 <= free_region_start <= free_region_end <= data_size.                 *)
C2_HeaderWithinData ==
    alive => /\ 0 <= m_header.free_region_start
             /\ m_header.free_region_start <= m_header.free_region_end
             /\ m_header.free_region_end <= data_size(page_size)

(* C3: for either offset width, insert(data) throws bad_alloc exactly when *)
(* len(data) + 2 * sizeof(intra_offset_t) exceeds                          *)
(* free_region_end - free_region_start.                                    *)
C3_ThrowsExactlyWhenRecordExceedsFree ==
    alive =>
        \A data \in Payloads(This) :
            (insert_call(This, data).result = "bad_alloc")
                <=> (Len(data) + 2 * W(This)
                        > m_header.free_region_end - m_header.free_region_start)

(* C4: an insert that throws bad_alloc leaves the page as it was: header,  *)
(* size(), free_space(), every byte of the buffer, every at(i).            *)
C4_RefusedInsertLeavesPage ==
    alive =>
        \A data \in Payloads(This) :
            LET r == insert_call(This, data)
            IN  r.result = "bad_alloc" =>
                    /\ r.page.header = m_header
                    /\ r.page.data = m_data
                    /\ r.page.past = past_end
                    /\ size(r.page) = size(This)
                    /\ free_space(r.page) = free_space(This)
                    /\ \A i \in Indices, g \in Garbage :
                          i < size(This) => at(r.page, i, g) = at(This, i, g)

C4_Witness ==
    /\ alive
    /\ live >= 1
    /\ \E data \in Payloads(This) : insert_call(This, data).result = "bad_alloc"

(* C5: an insert of L bytes that succeeds lowers free_space() by           *)
(* L + 2 * sizeof(intra_offset_t) and raises size() by one, and size() is  *)
(* the number of successful inserts since construction or the last clear.  *)
C5_InsertAccounting ==
    [][\A data \in Payloads(This) :
          (Insert(data) /\ alive') =>
              /\ free_space(This') = free_space(This) - (Len(data) + 2 * W(This))
              /\ size(This') = size(This) + 1
              /\ size(This') = live']_vars

(* C6: clear() leaves the header a freshly constructed page has:           *)
(* free_region_start = sizeof(header), free_region_end = data_size, hence  *)
(* the free_space() of a new page.                                         *)
C6_ClearGivesFreshHeader ==
    [][Clear =>
          /\ m_header'.free_region_start = sizeof_header(page_size)
          /\ m_header'.free_region_end = data_size(page_size)
          /\ \A g \in Garbage :
                free_space(This') = free_space(page(page_size, g))]_vars

(* C7: at(index) throws out_of_range for every index >= size(),            *)
(* contains(index) is index < size(), and neither call changes the page.   *)
C7_OutOfRangeAndContains ==
    /\ [](alive =>
            \A index \in Indices, g \in Garbage :
                /\ index >= size(This)
                   => at_call(This, index, g).result = "out_of_range"
                /\ index < size(This) => at_call(This, index, g).result = "view"
                /\ contains(This, index) <=> index < size(This))
    /\ [][((At \/ Contains) /\ alive') => UNCHANGED <<m_header, m_data, past_end>>]_vars

C7_Witness ==
    /\ alive
    /\ clears = 1
    /\ live >= 1
    /\ live < MaxInserts
    /\ \A g \in Garbage :
          /\ at_call(This, live - 1, g).result = "view"
          /\ at_call(This, live, g).result = "out_of_range"
    /\ ~contains(This, live)

(* C8: a page read back from the bytes the page was written as has the     *)
(* same size() and, at every index below it, the same bytes; what is       *)
(* written is page_size bytes.                                             *)
C8_RoundTrip ==
    alive =>
        /\ Len(ss) \in {0, page_size}
        /\ p2.set =>
              /\ size(p2.page) = size(This)
              /\ \A i \in Indices, g \in Garbage :
                    i < size(This) =>
                        /\ at_call(p2.page, i, g).len = at_call(This, i, g).len
                        /\ at(p2.page, i, g) = at(This, i, g)

(* C9: a byte stored through the view of at(index) is what at(index) views *)
(* afterwards at that position, and size(), free_space(), the length of    *)
(* every record and the bytes of every other record stay as they were.     *)
C9_ViewStoreIsLocal ==
    [][\A index \in Indices, k \in 0..(MaxLen - 1), b \in Alphabet :
          (WriteView(index, k, b) /\ alive') =>
              /\ size(This') = size(This)
              /\ free_space(This') = free_space(This)
              /\ \A g \in Garbage :
                    /\ view_byte(This', index, k, g) = b
                    /\ \A j \in Indices :
                          j < size(This) =>
                              /\ at_call(This', j, g).len = at_call(This, j, g).len
                              /\ j # index => at(This', j, g) = at(This, j, g)]_vars

(* C10: after clear(), whatever was inserted before, size() is 0, empty()  *)
(* is true and contains(i) is false for every index i.                     *)
C10_ClearEmpties ==
    [][Clear =>
          /\ size(This') = 0
          /\ empty(This')
          /\ \A i \in Indices : ~contains(This', i)]_vars

C10_Witness ==
    /\ alive
    /\ clears = 1
    /\ live = 0
    /\ inserts >= 1
    /\ size(This) = 0

(* C11: with values inserted by value and no handle kept, capacity >= 1: a *)
(* get(k) that resolves leaves k's value in the front node; an insert of a *)
(* key that is not resident into a cache with capacity resident keys       *)
(* evicts the resident key whose last insert or resolving get is oldest:   *)
(* its get returns nullptr, while every other resident key and the new key *)
(* resolve to the value last inserted under them.                          *)
C11_RecencyDecidesEviction ==
    [][/\ \A key \in Keys :
              (Get(key, FALSE) /\ intact' /\ m_size >= 1
                   /\ lru_get(Lru, key, held).result # nullptr)
              => (m_list' # <<>> /\ m_list'[1].ptr = latest[key])
       /\ \A key \in Keys :
              (InsertValue(key) /\ intact' /\ m_size >= 1
                   /\ key \notin Resident(Lru, held)
                   /\ Cardinality(Resident(Lru, held)) = m_size)
              => LET victim == LeastRecent(Resident(Lru, held))
                 IN  /\ lru_get(Lru', victim, held').result = nullptr
                     /\ lru_get(Lru', key, held').result = made + 1
                     /\ \A k \in Resident(Lru, held) \ {victim} :
                           lru_get(Lru', k, held').result = latest[k]]_vars

C11_Witness ==
    /\ intact
    /\ m_size = 2
    /\ made = 3
    /\ used = <<3, 1, 2>>
    /\ held = {}
    /\ lru_get(Lru, 2, held).result = nullptr
    /\ lru_get(Lru, 1, held).result = latest[1]
    /\ lru_get(Lru, 3, held).result = latest[3]

(* C12: capacity C >= 1, C + 1 distinct keys inserted and no get made: get *)
(* of the first key inserted returns nullptr, get of each of the other C   *)
(* keys returns the value inserted under it.                               *)
C12_OverflowKeepsNewest ==
    (intact /\ plain /\ m_size >= 1 /\ made = m_size + 1) =>
        /\ lru_get(Lru, used[Len(used)], held).result = nullptr
        /\ \A i \in 1..(Len(used) - 1) :
              lru_get(Lru, used[i], held).result = latest[used[i]]

(* C13: a key whose node an insert of another key pops from the tail is    *)
(* gone: get of it returns nullptr afterwards, whoever still owns the      *)
(* value.                                                                  *)
C13_PoppedKeyIsAbsent ==
    [][\A key \in Keys, v \in Values, keep \in BOOLEAN :
          (InsertPtr(key, v, keep) /\ intact') =>
              \A k \in Keys \ {key} :
                  Dropped(Lru, k) => lru_get(Lru', k, held').result = nullptr]_vars

C15_ListWithinCapacity ==
    intact => Len(m_list) <= m_size

(* C16: for a capacity >= 1, every node of m_list is the node of exactly   *)
(* one key that has an entry in m_map and in m_iter_map, and every key in  *)
(* the maps whose value is alive has its node in m_list.                   *)
C16_ListAndMapsAgree ==
    (intact /\ m_size >= 1) =>
        /\ DOMAIN m_map = DOMAIN m_iter_map
        /\ \A i \in 1..Len(m_list) :
              Cardinality({k \in DOMAIN m_map \cap DOMAIN m_iter_map :
                              /\ m_iter_map[k] = m_list[i].node
                              /\ m_map[k] = m_list[i].ptr}) = 1
        /\ \A k \in DOMAIN m_map \cap DOMAIN m_iter_map :
              lock(Lru, held, m_map[k]) => PositionOf(m_list, m_iter_map[k]) # 0

(* C17: values inserted by value, capacity >= 1: while the distinct keys   *)
(* inserted so far are at most m_size, every one of them resolves to the   *)
(* value last inserted under it.                                           *)
C17_ReinsertTakesNoSlot ==
    (intact /\ m_size >= 1 /\ Cardinality(DOMAIN latest) <= m_size) =>
        \A k \in DOMAIN latest : lru_get(Lru, k, held).result = latest[k]

(* C18: for a capacity >= 1, m_map and m_iter_map never hold more than     *)
(* m_size keys.                                                            *)
C18_MapsWithinCapacity ==
    (intact /\ m_size >= 1) =>
        /\ Cardinality(DOMAIN m_map) <= m_size
        /\ Cardinality(DOMAIN m_iter_map) <= m_size

(* C19: a get that resolves returns the value of the last insert under its *)
(* key, never the value of an earlier insert; for a key never inserted it  *)
(* returns nullptr.                                                        *)
C19_NewestEntryWins ==
    [][\A key \in Keys, keep \in BOOLEAN :
          (Get(key, keep) /\ intact') =>
              LET r == lru_get(Lru, key, held)
              IN  /\ key \in DOMAIN latest => r.result \in {nullptr, latest[key]}
                  /\ key \notin DOMAIN latest => r.result = nullptr
                  /\ (keep /\ r.result # nullptr) => latest[key] \in held']_vars

C19_Witness ==
    /\ intact
    /\ m_size = 2
    /\ made = 3
    /\ DOMAIN latest = {1, 2}
    /\ latest[1] = 2
    /\ m_list = <<[node |-> 2, ptr |-> 2], [node |-> 3, ptr |-> 3]>>
    /\ lru_get(Lru, 1, held).result = 2

(* C20: a get of a key that is in m_map with a dead value returns nullptr  *)
(* and leaves the key in neither map and its last value in no node; the    *)
(* same get again returns nullptr and changes nothing.                     *)
C20_DeadKeyIsPurged ==
    [][\A key \in Keys, keep \in BOOLEAN :
          (/\ Get(key, keep)
           /\ intact'
           /\ key \in DOMAIN m_map
           /\ ~lock(Lru, held, m_map[key]))
          => /\ lru_get(Lru, key, held).result = nullptr
             /\ key \notin DOMAIN m_map'
             /\ key \notin DOMAIN m_iter_map'
             /\ latest[key] \notin ListValues(m_list')
             /\ m_list' = m_list
             /\ held' = held
             /\ lru_get(Lru', key, held')
                    = [cache |-> Lru', result |-> nullptr, ub |-> FALSE]]_vars

C20_Witness ==
    /\ intact
    /\ \E k \in DOMAIN latest :
          /\ k \notin DOMAIN m_map
          /\ k \notin DOMAIN m_iter_map
          /\ latest[k] \notin ListValues(m_list)

(* C21: for a capacity >= 1, whenever get(k) would resolve, the iterator   *)
(* m_iter_map holds for k refers to a node that is in m_list: splice is    *)
(* never given the iterator of a node that was popped.                     *)
C21_PromotedNodeIsInList ==
    (intact /\ m_size >= 1) =>
        \A key \in DOMAIN m_map :
            lock(Lru, held, m_map[key]) =>
                /\ key \in DOMAIN m_iter_map
                /\ PositionOf(m_list, m_iter_map[key]) # 0
                /\ ~lru_get(Lru, key, held).ub

(* C22: every byte an insert stores (length prefix, payload, table entry)  *)
(* lies in m_data, below data_size, and afterwards the offset table,       *)
(* entries 0..size()-1 from m_data[0], ends at or before free_region_end,  *)
(* where the records start.                                                *)
C22_InsertStoresInsideData ==
    [][\A data \in Payloads(This) :
          Insert(data) =>
              /\ ~insert_call(This, data).oob
              /\ alive' =>
                    /\ size(This') < FarOut
                    /\ W(This) * size(This') <= m_header'.free_region_end
                    /\ m_header'.free_region_end <= data_size(page_size)]_vars

====
